---------------------------- MODULE Spec2Model ----------------------------
(***************************************************************************)
(* A model of gitlab-ls (src/gitlab-ls.py): the language server's          *)
(* in-memory project index, its persisted JSON store, the synchronization  *)
(* pass load_projects / update_project / fetch_projects / save_state, the   *)
(* remote GitLab service it queries and the read-only editor handlers.     *)
(*                                                                         *)
(* A Python dict whose iteration order the code depends on (self.projects, *)
(* the loaded JSON document) is a sequence of <<key, value>> pairs with    *)
(* distinct keys, in insertion order.  The issue and merge-request dicts,  *)
(* whose order the code never depends on, are functions.                   *)
(* A timestamp is the number of whole seconds on the host clock            *)
(* (get_timestamp drops the microseconds); None for a timestamp is -1.     *)
(***************************************************************************)
EXTENDS Integers, Sequences, FiniteSets, TLC

(***************************************************************************)
(* Bounds of the model.                                                    *)
(***************************************************************************)
MaxReq == 2
MaxClock == 1
MaxChanges == 1
MaxPaths == 3

\* A string the code matches or converts character by character (a project
\* path, a URL, a line, an IID in the JSON document) is a sequence of characters.
PathA == <<"a">>
PathB == <<"g", "/", "b">>
Paths == {PathA, PathB}
Catalogs == {{PathA}, {PathA, PathB}}
Iids == {7, 10}
Kinds == {"issues", "merge_requests"}
NoTime == 0 - 1

RECURSIVE SeqsUpTo(_, _)
SeqsUpTo(S, n) ==
    IF n = 0 THEN {<<>>}
    ELSE LET shorter == SeqsUpTo(S, n - 1)
         IN  shorter \cup {Append(s, x) : s \in {t \in shorter : Len(t) = n - 1}, x \in S}

RequestLists == SeqsUpTo(Paths, MaxReq)

VARIABLES
    clock,              \* host clock, whole seconds
    remote,             \* the GitLab service: path -> [id, issues, merge_requests]
    changes,            \* number of remote modifications so far
    store,              \* index.json: sequence of <<path, serialized project>>
    client,             \* self.client
    projects,           \* self.projects: sequence of <<path, GitlabProject>>
    requested,          \* the list `projects` handed to load_projects
    pc,                 \* position of the initialize handler
    cache,              \* load_projects' local `cache`
    ci,                 \* position of `for project_name in cache`
    catalog,            \* the list fetch_projects iterates
    fi,                 \* position of `for fetched_project in ...`
    issue_dict,         \* the dict get_issue_dict returned last
    merge_request_dict, \* the dict get_merge_request_dict returned last
    progress,           \* the WorkProgress of the pass
    log,                \* notifications sent and remote calls issued in this session
    reply,              \* what the last editor handler returned
    given,              \* the list as the editor sent it (before any pop)
    quiet,              \* history: the remote has not changed since this session began
    prev                \* history: <<[given, projects]>> of the previous session if it
                        \* succeeded and the remote has not changed since it began

vars == <<clock, remote, changes, store, client, projects, requested, pc,
          cache, ci, catalog, fi, issue_dict, merge_request_dict, progress, log,
          reply, given, quiet, prev>>

(***************************************************************************)
(* Python dicts kept in insertion order.                                   *)
(***************************************************************************)
Keys(d) == {d[i][1] : i \in 1..Len(d)}
Has(d, k) == \E i \in 1..Len(d) : d[i][1] = k
Pos(d, k) == CHOOSE i \in 1..Len(d) : d[i][1] = k
Get(d, k) == d[Pos(d, k)][2]
Put(d, k, v) ==
    IF Has(d, k) THEN [d EXCEPT ![Pos(d, k)] = <<k, v>>] ELSE Append(d, <<k, v>>)

EmptyDict == [k \in {} |-> 0]

(***************************************************************************)
(* str(int) and int(str) on IIDs: json.dump writes an integer dict key as  *)
(* its decimal string, GitlabProject.from_dict converts it back with int.  *)
(***************************************************************************)
DigitChars == <<"0", "1", "2", "3", "4", "5", "6", "7", "8", "9">>

RECURSIVE StrOfInt(_)
StrOfInt(n) ==
    IF n < 10 THEN <<DigitChars[n + 1]>>
    ELSE Append(StrOfInt(n \div 10), DigitChars[(n % 10) + 1])

DigitValue(c) == (CHOOSE i \in 1..10 : DigitChars[i] = c) - 1

RECURSIVE IntOfStr(_)
IntOfStr(s) ==
    IF Len(s) = 1 THEN DigitValue(s[1])
    ELSE 10 * IntOfStr(SubSeq(s, 1, Len(s) - 1)) + DigitValue(s[Len(s)])


(***************************************************************************)
(* GitlabObject and GitlabProject, and their JSON form.                    *)
(***************************************************************************)
GitlabObject(id, title, author, state, description) ==
    [id |-> id, title |-> title, author |-> author, state |-> state,
     description |-> description]

GitlabProject(id, path, last_update, issues, merge_requests) ==
    [id |-> id, path |-> path, last_update |-> last_update, issues |-> issues,
     merge_requests |-> merge_requests]

\* json.dump of a Dict[int, GitlabObject]: every key becomes its decimal string.
JsonKeys(d) ==
    [s \in {StrOfInt(k) : k \in DOMAIN d} |-> d[CHOOSE k \in DOMAIN d : StrOfInt(k) = s]]

\* from_dict of a Dict[int, GitlabObject]: every key goes through int().
IntKeys(j) ==
    [k \in {IntOfStr(s) : s \in DOMAIN j} |-> j[CHOOSE s \in DOMAIN j : IntOfStr(s) = k]]

\* a to_dict that writes the issues under both names
to_dict_issues_twice(project) ==
    [id |-> project.id, path |-> project.path, last_update |-> project.last_update,
     issues |-> JsonKeys(project.issues),
     merge_requests |-> JsonKeys(project.issues)]

to_dict(project) ==
    [id |-> project.id, path |-> project.path, last_update |-> project.last_update,
     issues |-> JsonKeys(project.issues),
     merge_requests |-> JsonKeys(project.merge_requests)]

from_dict(j) ==
    GitlabProject(j.id, j.path, j.last_update, IntKeys(j.issues),
                  IntKeys(j.merge_requests))

\* a save_state that rebinds its dict at every project, so only the last is left
SavedDocumentLastOnly(ps) ==
    IF ps = <<>> THEN <<>> ELSE <<<<ps[Len(ps)][1], to_dict(ps[Len(ps)][2])>>>>

\* save_state: one document holding every in-memory project, replacing the file.
SavedDocument(ps) == [i \in 1..Len(ps) |-> <<ps[i][1], to_dict(ps[i][2])>>]

\* load_state: the document of the file ({} when there is no file).
load_state == store

(***************************************************************************)
(* The remote service.                                                     *)
(***************************************************************************)
ProjectId(p) == IF p = PathA THEN 11 ELSE 12

RemoteObject(iid, state, updated_at) ==
    [iid |-> iid, title |-> "t", author |-> [name |-> "n"], state |-> state,
     description |-> "d", updated_at |-> updated_at]

RemoteInit(cat) ==
    [p \in cat |->
        [id |-> ProjectId(p), path_with_namespace |-> p,
         issues |-> (7 :> RemoteObject(7, "closed", 0)),
         merge_requests |-> (7 :> RemoteObject(7, "opened", 0))]]

States(kind) == IF kind = "issues" THEN {"opened", "closed"} ELSE {"opened", "merged"}

\* client.projects.get(id)
HasRemoteId(id) == \E p \in DOMAIN remote : remote[p].id = id
RemoteById(id) == remote[CHOOSE p \in DOMAIN remote : remote[p].id = id]

\* client.projects.list(get_all=True): the projects in id order
ProjectsList ==
    LET ps == DOMAIN remote
    IN  [i \in 1..Cardinality(ps) |->
            LET p == CHOOSE q \in ps :
                        Cardinality({r \in ps : remote[r].id < remote[q].id}) = i - 1
            IN  [id |-> remote[p].id, path_with_namespace |-> p]]

\* project.issues.list(...) / project.mergerequests.list(...): with updated_after,
\* the objects updated at or after that time; without, all of them.
Listed(objs, updated_after) ==
    {k \in DOMAIN objs : updated_after = NoTime \/ objs[k].updated_at >= updated_after}

ObjectDict(objs, updated_after) ==
    [k \in Listed(objs, updated_after) |->
        GitlabObject(objs[k].iid, objs[k].title, objs[k].author.name, objs[k].state,
                     objs[k].description)]

get_issue_dict(project, updated_after) == ObjectDict(project.issues, updated_after)

get_merge_request_dict(project, updated_after) ==
    ObjectDict(project.merge_requests, updated_after)

\* a merge that keeps the old record on a conflict
DictUpdateKeepingOld(d, new) ==
    [k \in DOMAIN d \cup DOMAIN new |-> IF k \in DOMAIN d THEN d[k] ELSE new[k]]

\* an assignment in place of the merge
DictReplaced(d, new) == new

\* d |= new
DictUpdate(d, new) ==
    [k \in DOMAIN d \cup DOMAIN new |-> IF k \in DOMAIN new THEN new[k] ELSE d[k]]

\* datetime.now() at whole seconds: no earlier than any time read before
Times == {t \in clock..(clock + 1) : t <= MaxClock}

\* a clock read in another time zone, behind the local one
get_timestamp_behind(now) == now - 1

get_timestamp(now) == now

(***************************************************************************)
(* Progress notifications and the record of the session's remote calls.    *)
(***************************************************************************)
Event(ev, what, arg, pct) == [ev |-> ev, what |-> what, arg |-> arg, pct |-> pct]

report_progress(l, pr, what, arg) == Append(l, Event("report", what, arg, pr.progress))

\* an advance by one percent, whatever the increment
advance_by_one(pr) == [pr EXCEPT !.progress = pr.progress + 1]

advance(pr) == [pr EXCEPT !.progress = pr.progress + pr.increment]

Called(l, what, arg) == Append(l, Event("call", what, arg, 0))

\* a pop that leaves the list as it is
PopNothing(s, idx) == s

\* projects.pop(idx)
Pop(s, idx) == [i \in 1..(Len(s) - 1) |-> IF i < idx THEN s[i] ELSE s[i + 1]]

\* next((i for i in range(len(projects)) if projects[i] == project_name), None); 0 is None
IdxOf(s, name) ==
    IF \E i \in 1..Len(s) : s[i] = name
    THEN CHOOSE i \in 1..Len(s) : s[i] = name /\ \A j \in 1..(i - 1) : s[j] # name
    ELSE 0

\* a membership test that looks at the first entry only
InListFirstOnly(s, x) == Len(s) > 0 /\ s[1] = x

\* fetched_project.path_with_namespace in project_paths
InList(s, x) == \E i \in 1..Len(s) : s[i] = x

Init ==
    /\ clock = 0
    /\ \E cat \in Catalogs : remote = RemoteInit(cat)
    /\ changes = 0
    /\ store = <<>>
    /\ client = "None"
    /\ projects = <<>>
    /\ requested = <<>>
    /\ pc = "idle"
    /\ cache = <<>>
    /\ ci = 0
    /\ catalog = <<>>
    /\ fi = 0
    /\ issue_dict = EmptyDict
    /\ merge_request_dict = EmptyDict
    /\ progress = [increment |-> 0, progress |-> 0]
    /\ log = <<>>
    /\ reply = <<>>
    /\ given = <<>>
    /\ quiet = TRUE
    /\ prev = <<>>

(***************************************************************************)
(* init_gitlab: the compiled pattern                                       *)
(*   \b <client.url> /([^ ]+)/-/(issues|merge_requests)/(\d+) \b           *)
(* matched as Python's re does: leftmost, [^ ]+ and \d+ greedy with        *)
(* backtracking.  client.url is spliced in unescaped, so a "." in it       *)
(* matches any character.                                                  *)
(***************************************************************************)
BaseUrl == <<"h", ".", "x">>
IssuesWord == <<"i", "s", "s", "u", "e", "s">>
MergeRequestsWord == <<"m", "e", "r", "g", "e", "_", "r", "e", "q", "u", "e", "s", "t", "s">>
KindWord(kind) == IF kind = "issues" THEN IssuesWord ELSE MergeRequestsWord

Digits == {DigitChars[i] : i \in 1..10}
Letters == {"a", "b", "c", "d", "e", "f", "g", "h", "i", "j", "k", "l", "m", "n",
            "o", "p", "q", "r", "s", "t", "u", "v", "w", "x", "y", "z"}
IsDigit(c) == c \in Digits
WordChars == Letters \cup Digits \cup {"_"}
IsWordChar(c) == c \in WordChars

\* \b before position i (1-based) of s
Boundary(s, i) ==
    (i > 1 /\ IsWordChar(s[i - 1])) # (i <= Len(s) /\ IsWordChar(s[i]))

StartsWith(s, j, lit) ==
    /\ j + Len(lit) - 1 <= Len(s)
    /\ \A k \in 1..Len(lit) : s[j + k - 1] = lit[k]

UrlAt(s, i) ==
    /\ i + Len(BaseUrl) - 1 <= Len(s)
    /\ \A k \in 1..Len(BaseUrl) : BaseUrl[k] = "." \/ s[i + k - 1] = BaseUrl[k]

SetMax(S) == CHOOSE x \in S : \A y \in S : y <= x

\* (\d) in place of (\d+): the run of digits is its first digit
DigitRunEndAtFirst(s, d1) == d1

\* the last position of the run of digits that starts at d1
RECURSIVE DigitRunEnd(_, _)
DigitRunEnd(s, d1) ==
    IF d1 < Len(s) /\ IsDigit(s[d1 + 1]) THEN DigitRunEnd(s, d1 + 1) ELSE d1

\* /-/<word>/ as the pattern spells it
Separator(word) == <<"/", "-", "/">> \o word \o <<"/">>
IssuesSeparator == Separator(IssuesWord)
MergeRequestsSeparator == Separator(MergeRequestsWord)

\* /-/<word>/(\d+)\b at position j
RestAt(s, j, separator) ==
    LET d1 == j + Len(separator)
    IN  /\ StartsWith(s, j, separator)
        /\ d1 <= Len(s)
        /\ IsDigit(s[d1])
        /\ Boundary(s, DigitRunEnd(s, d1) + 1)

KindAt(s, j) ==
    IF RestAt(s, j, IssuesSeparator) THEN "issues"
    ELSE IF RestAt(s, j, MergeRequestsSeparator) THEN "merge_requests"
    ELSE "none"

\* the last position [^ ]+ can reach from a: the end of the run without a space
RECURSIVE NoSpaceRunEnd(_, _)
NoSpaceRunEnd(s, a) ==
    IF a <= Len(s) /\ s[a] # " " THEN NoSpaceRunEnd(s, a + 1) ELSE a - 1

\* where group 1 can end for a match that starts at i
Group1Ends(s, i) ==
    LET a == i + Len(BaseUrl) + 1
    IN  {e \in a..NoSpaceRunEnd(s, a) : KindAt(s, e + 1) # "none"}

MatchesAt(s, i) ==
    /\ Boundary(s, i)
    /\ UrlAt(s, i)
    /\ StartsWith(s, i + Len(BaseUrl), <<"/">>)
    /\ Group1Ends(s, i) # {}

\* the match object: groups, m.start() and m.end() (0-based, end exclusive)
MatchAt(s, i) ==
    LET a == i + Len(BaseUrl) + 1
        e == SetMax(Group1Ends(s, i))
        kind == KindAt(s, e + 1)
        d1 == e + 1 + Len(Separator(KindWord(kind)))
        d2 == DigitRunEnd(s, d1)
    IN  [group1 |-> SubSeq(s, a, e), group2 |-> KindWord(kind),
         group3 |-> SubSeq(s, d1, d2), start |-> i - 1, end |-> d2]

\* gitlab_url_regex.match(url): <<>> is None
RegexMatch(url) == IF MatchesAt(url, 1) THEN <<MatchAt(url, 1)>> ELSE <<>>

\* the first position at or after pos where the regex matches; Len(s) + 1 if none
RECURSIVE FirstMatchFrom(_, _)
FirstMatchFrom(s, pos) ==
    IF pos > Len(s) \/ MatchesAt(s, pos) THEN pos ELSE FirstMatchFrom(s, pos + 1)

\* gitlab_url_regex.finditer(line), searching from position pos
RECURSIVE FindIterFrom(_, _)
FindIterFrom(s, pos) ==
    LET i == FirstMatchFrom(s, pos)
    IN  IF i > Len(s) THEN <<>>
        ELSE LET m == MatchAt(s, i)
             IN  <<m>> \o FindIterFrom(s, m.end + 1)

FindIter(s) == FindIterFrom(s, 1)

(***************************************************************************)
(* Reference resolution against self.projects; <<>> is None.               *)
(***************************************************************************)
\* a lookup that takes every reference for an issue
get_gitlab_object_from_url_match_as_issue(ps, m) ==
    IF m = <<>> THEN <<>>
    ELSE LET project_path == m[1].group1
         IN  IF ~Has(ps, project_path) THEN <<>>
             ELSE LET project == Get(ps, project_path)
                      iid == IntOfStr(m[1].group3)
                  IN  IF iid \notin DOMAIN project.issues THEN <<>>
                      ELSE <<project.issues[iid]>>

get_gitlab_object_from_url_match(ps, m) ==
    IF m = <<>> THEN <<>>
    ELSE LET project_path == m[1].group1
         IN  IF ~Has(ps, project_path) THEN <<>>
             ELSE LET project == Get(ps, project_path)
                      is_issue == m[1].group2 = IssuesWord
                      iid == IntOfStr(m[1].group3)
                      gitlab_objects == IF is_issue THEN project.issues
                                        ELSE project.merge_requests
                  IN  IF iid \notin DOMAIN gitlab_objects THEN <<>>
                      ELSE <<gitlab_objects[iid]>>

RECURSIVE ResolveAll(_, _)
ResolveAll(ps, ms) ==
    IF ms = <<>> THEN <<>>
    ELSE LET o == get_gitlab_object_from_url_match(ps, <<Head(ms)>>)
             rest == ResolveAll(ps, Tail(ms))
         IN  IF o = <<>> THEN rest
             ELSE <<<<o[1], Head(ms).start, Head(ms).end>>>> \o rest

get_gitlab_objects_from_line(ps, line) == ResolveAll(ps, FindIter(line))

get_gitlab_object_from_url(ps, url) ==
    get_gitlab_object_from_url_match(ps, RegexMatch(url))

Url(path, kind, iid) ==
    BaseUrl \o <<"/">> \o path \o <<"/", "-", "/">> \o KindWord(kind) \o <<"/">>
        \o StrOfInt(iid)

(***************************************************************************)
(* The initialize handler (fetch_database -> load_projects).  It runs on   *)
(* the server's single thread without yielding; its steps are cut at the   *)
(* remote calls and clock reads, where the outside world can move.  The    *)
(* steps between two remote calls are deterministic.                        *)
(***************************************************************************)
AtRemoteCall ==
    pc \in {"update_get_1", "update_issues", "update_get_2", "update_merge_requests",
            "update_timestamp", "projects_list", "fetch_issues",
            "fetch_merge_requests", "fetch_timestamp"}

Running == pc \in {"cache_loop", "fetch_loop"} \/ AtRemoteCall

\* the cache entry the loop of load_projects is at, deserialized, and its path
CurrentName == cache[ci][1]
CurrentPath == from_dict(cache[ci][2]).path

LocalsDropped ==
    /\ cache' = <<>>
    /\ ci' = 0
    /\ catalog' = <<>>
    /\ fi' = 0
    /\ issue_dict' = EmptyDict
    /\ merge_request_dict' = EmptyDict

\* an exception handled by saving what is in memory (a finally: save_state())
RaisedAfterSaving ==
    /\ pc' = "failed"
    /\ LocalsDropped
    /\ store' = SavedDocument(projects)
    /\ UNCHANGED <<clock, remote, changes, projects, requested, progress, reply,
                   given, quiet, prev>>

\* an exception leaves load_projects: nothing after the raising statement runs
Raised ==
    /\ pc' = "failed"
    /\ LocalsDropped
    /\ UNCHANGED <<clock, remote, changes, store, projects, requested,
                   progress, reply, given, quiet, prev>>

\* progress.end(...) sent before save_state()
EndAndSave(l) ==
    /\ store' = SavedDocument(projects)
    /\ log' = Append(Append(l, Event("end", "Database loaded!", <<>>, 0)),
                     Event("save", "", <<>>, 0))
    /\ pc' = "done"
    /\ LocalsDropped
    /\ UNCHANGED <<clock, remote, changes, client, projects, requested,
                   progress, reply, given, quiet, prev>>

\* lines 114-115: save_state(), progress.end(...)
SaveAndEnd(l) ==
    /\ store' = SavedDocument(projects)
    /\ log' = Append(Append(l, Event("save", "", <<>>, 0)),
                     Event("end", "Database loaded!", <<>>, 0))
    /\ pc' = "done"
    /\ LocalsDropped
    /\ UNCHANGED <<clock, remote, changes, client, projects, requested,
                   progress, reply, given, quiet, prev>>

\* a load_projects that divides by max(1, len(projects))
InitializeAnyLength(list) ==
    /\ pc = "idle"
    /\ client' = "Gitlab"
    /\ requested' = list
    /\ given' = list
    /\ progress' = [increment |-> IF Len(list) = 0 THEN 100 ELSE 100 \div Len(list),
                    progress |-> 0]
    /\ log' = <<Event("create", "", <<>>, 0), Event("begin", "Database load", <<>>, 0)>>
    /\ cache' = load_state
    /\ ci' = 1
    /\ pc' = "cache_loop"
    /\ UNCHANGED <<clock, remote, changes, store, projects, catalog, fi,
                   issue_dict, merge_request_dict, reply, quiet, prev>>

\* fetch_database, load_projects lines 92-98
Initialize(list) ==
    /\ pc = "idle"
    /\ client' = "Gitlab"
    /\ requested' = list
    /\ given' = list
    /\ IF Len(list) = 0
       THEN \* int(100 / len(projects)) raises ZeroDivisionError
            /\ pc' = "failed"
            /\ UNCHANGED <<progress, log, cache, ci>>
       ELSE /\ progress' = [increment |-> 100 \div Len(list), progress |-> 0]
            /\ log' = <<Event("create", "", <<>>, 0),
                        Event("begin", "Database load", <<>>, 0)>>
            /\ cache' = load_state
            /\ ci' = 1
            /\ pc' = "cache_loop"
    /\ UNCHANGED <<clock, remote, changes, store, projects, catalog, fi,
                   issue_dict, merge_request_dict, reply, quiet, prev>>

\* a load_projects that calls fetch_projects whatever is left of the list
CacheLoopAlwaysFetching ==
    /\ pc = "cache_loop"
    /\ IF ci > Len(cache)
       THEN IF Len(requested) >= 0
            THEN \* fetch_projects lines 137-139
                 IF client = "None"
                 THEN SaveAndEnd(report_progress(log, progress,
                                                 "Fetching missing projects", <<>>))
                 ELSE /\ log' = report_progress(log, progress,
                                                "Fetching missing projects", <<>>)
                      /\ pc' = "projects_list"
                      /\ UNCHANGED <<clock, remote, changes, store, client,
                                     projects, requested, cache, ci, catalog, fi,
                                     issue_dict, merge_request_dict, progress, reply, given, quiet, prev>>
            ELSE SaveAndEnd(log)
       ELSE IF IdxOf(requested, CurrentName) = 0
            THEN /\ ci' = ci + 1
                 /\ UNCHANGED <<clock, remote, changes, store, client,
                                projects, requested, pc, cache, catalog, fi,
                                issue_dict, merge_request_dict, progress, log, reply, given, quiet, prev>>
            ELSE LET project == from_dict(cache[ci][2])
                 IN  /\ projects' = Put(projects, project.path, project)
                     /\ log' = report_progress(log, progress, "Updating", project.path)
                     /\ pc' = "update_get_1"
                     /\ UNCHANGED <<clock, remote, changes, store, client,
                                    requested, cache, ci, catalog, fi, issue_dict,
                                    merge_request_dict, progress, reply, given, quiet, prev>>

\* load_projects lines 99-107 and 112-115: one turn of `for project_name in cache`
CacheLoop ==
    /\ pc = "cache_loop"
    /\ IF ci > Len(cache)
       THEN IF Len(requested) > 0
            THEN \* fetch_projects lines 137-139
                 IF client = "None"
                 THEN SaveAndEnd(report_progress(log, progress,
                                                 "Fetching missing projects", <<>>))
                 ELSE /\ log' = report_progress(log, progress,
                                                "Fetching missing projects", <<>>)
                      /\ pc' = "projects_list"
                      /\ UNCHANGED <<clock, remote, changes, store, client,
                                     projects, requested, cache, ci, catalog, fi,
                                     issue_dict, merge_request_dict, progress, reply, given, quiet, prev>>
            ELSE SaveAndEnd(log)
       ELSE IF IdxOf(requested, CurrentName) = 0
            THEN /\ ci' = ci + 1
                 /\ UNCHANGED <<clock, remote, changes, store, client,
                                projects, requested, pc, cache, catalog, fi,
                                issue_dict, merge_request_dict, progress, log, reply, given, quiet, prev>>
            ELSE LET project == from_dict(cache[ci][2])
                 IN  /\ projects' = Put(projects, project.path, project)
                     /\ log' = report_progress(log, progress, "Updating", project.path)
                     /\ pc' = "update_get_1"
                     /\ UNCHANGED <<clock, remote, changes, store, client,
                                    requested, cache, ci, catalog, fi, issue_dict,
                                    merge_request_dict, progress, reply, given, quiet, prev>>

\* update_project line 122: self.client.projects.get(project.id)
UpdateGet1 ==
    /\ pc = "update_get_1"
    /\ HasRemoteId(Get(projects, CurrentPath).id)
    /\ log' = Called(log, "projects.get", CurrentPath)
    /\ pc' = "update_issues"
    /\ UNCHANGED <<clock, remote, changes, store, client, projects, requested,
                   cache, ci, catalog, fi, issue_dict, merge_request_dict, progress,
                   reply, given, quiet, prev>>

\* update_project lines 121-124: project.issues |= get_issue_dict(..., last_update)
UpdateIssues ==
    /\ pc = "update_issues"
    /\ LET project == Get(projects, CurrentPath)
           new == get_issue_dict(RemoteById(project.id), project.last_update)
       IN  /\ issue_dict' = new
           /\ projects' = Put(projects, CurrentPath,
                              [project EXCEPT !.issues = DictUpdate(project.issues, new)])
    /\ log' = Called(log, "issues.list", CurrentPath)
    /\ pc' = "update_get_2"
    /\ UNCHANGED <<clock, remote, changes, store, client, requested, cache, ci,
                   catalog, fi, merge_request_dict, progress, reply, given, quiet, prev>>

\* update_project line 126: self.client.projects.get(project.id)
UpdateGet2 ==
    /\ pc = "update_get_2"
    /\ HasRemoteId(Get(projects, CurrentPath).id)
    /\ log' = Called(log, "projects.get", CurrentPath)
    /\ pc' = "update_merge_requests"
    /\ UNCHANGED <<clock, remote, changes, store, client, projects, requested,
                   cache, ci, catalog, fi, issue_dict, merge_request_dict, progress,
                   reply, given, quiet, prev>>

\* update_project lines 125-128: project.merge_requests |= get_merge_request_dict(...)
UpdateMergeRequests ==
    /\ pc = "update_merge_requests"
    /\ LET project == Get(projects, CurrentPath)
           new == get_merge_request_dict(RemoteById(project.id), project.last_update)
       IN  /\ merge_request_dict' = new
           /\ projects' = Put(projects, CurrentPath,
                              [project EXCEPT
                                  !.merge_requests = DictUpdate(project.merge_requests, new)])
    /\ log' = Called(log, "mergerequests.list", CurrentPath)
    /\ pc' = "update_timestamp"
    /\ UNCHANGED <<clock, remote, changes, store, client, requested, cache, ci,
                   catalog, fi, issue_dict, progress, reply, given, quiet, prev>>

\* update_project lines 129-130, load_projects lines 109-111
UpdateTimestamp(now) ==
    /\ pc = "update_timestamp"
    /\ clock' = now
    /\ LET project == Get(projects, CurrentPath)
       IN  projects' = Put(projects, CurrentPath,
                           [project EXCEPT !.last_update = get_timestamp(now)])
    /\ requested' = Pop(requested, IdxOf(requested, CurrentName))
    /\ progress' = advance(progress)
    /\ log' = report_progress(log, advance(progress), "Updated", CurrentPath)
    /\ ci' = ci + 1
    /\ pc' = "cache_loop"
    /\ UNCHANGED <<remote, changes, store, client, cache, catalog, fi, issue_dict,
                   merge_request_dict, reply, given, quiet, prev>>

\* fetch_projects line 140: self.client.projects.list(get_all=True)
ProjectsListCall ==
    /\ pc = "projects_list"
    /\ catalog' = ProjectsList
    /\ fi' = 1
    /\ log' = Called(log, "projects.list", <<>>)
    /\ pc' = "fetch_loop"
    /\ UNCHANGED <<clock, remote, changes, store, client, projects, requested,
                   cache, ci, issue_dict, merge_request_dict, progress, reply, given, quiet, prev>>

\* fetch_projects lines 140-146, and its return to load_projects lines 114-115
FetchLoop ==
    /\ pc = "fetch_loop"
    /\ IF fi > Len(catalog)
       THEN SaveAndEnd(log)
       ELSE IF InList(requested, catalog[fi].path_with_namespace)
            THEN /\ log' = report_progress(log, progress, "Fetching missing project",
                                           catalog[fi].path_with_namespace)
                 /\ pc' = "fetch_issues"
                 /\ UNCHANGED <<clock, remote, changes, store, client,
                                projects, requested, cache, ci, catalog, fi,
                                issue_dict, merge_request_dict, progress, reply, given, quiet, prev>>
            ELSE /\ fi' = fi + 1
                 /\ UNCHANGED <<clock, remote, changes, store, client,
                                projects, requested, pc, cache, ci, catalog,
                                issue_dict, merge_request_dict, progress, log, reply, given, quiet, prev>>

\* fetch_projects line 147: issue_dict = self.get_issue_dict(fetched_project)
FetchIssues ==
    /\ pc = "fetch_issues"
    /\ issue_dict' = get_issue_dict(RemoteById(catalog[fi].id), NoTime)
    /\ log' = Called(log, "issues.list", catalog[fi].path_with_namespace)
    /\ pc' = "fetch_merge_requests"
    /\ UNCHANGED <<clock, remote, changes, store, client, projects, requested,
                   cache, ci, catalog, fi, merge_request_dict, progress, reply, given, quiet, prev>>

\* fetch_projects line 148: merge_request_dict = self.get_merge_request_dict(...)
FetchMergeRequests ==
    /\ pc = "fetch_merge_requests"
    /\ merge_request_dict' = get_merge_request_dict(RemoteById(catalog[fi].id), NoTime)
    /\ log' = Called(log, "mergerequests.list", catalog[fi].path_with_namespace)
    /\ pc' = "fetch_timestamp"
    /\ UNCHANGED <<clock, remote, changes, store, client, projects, requested,
                   cache, ci, catalog, fi, issue_dict, progress, reply, given, quiet, prev>>

\* fetch_projects lines 149-158
FetchTimestamp(now) ==
    /\ pc = "fetch_timestamp"
    /\ clock' = now
    /\ LET project == GitlabProject(catalog[fi].id, catalog[fi].path_with_namespace,
                                    get_timestamp(now), issue_dict, merge_request_dict)
       IN  /\ projects' = Put(projects, project.path, project)
           /\ log' = report_progress(log, advance(progress), "Fetched project",
                                     project.path)
    /\ progress' = advance(progress)
    /\ fi' = fi + 1
    /\ pc' = "fetch_loop"
    /\ UNCHANGED <<remote, changes, store, client, requested, cache, ci, catalog,
                   issue_dict, merge_request_dict, reply, given, quiet, prev>>

\* the project the remote call at pc is about
CallPath ==
    IF pc \in {"update_get_1", "update_issues", "update_get_2", "update_merge_requests"}
    THEN CurrentPath
    ELSE IF pc \in {"fetch_issues", "fetch_merge_requests"}
    THEN catalog[fi].path_with_namespace
    ELSE <<>>

\* a remote call raises (authentication, network, malformed response)
RemoteFailure ==
    /\ pc \in {"update_get_1", "update_issues", "update_get_2",
               "update_merge_requests", "projects_list", "fetch_issues",
               "fetch_merge_requests"}
    /\ log' = Append(log, Event("error", pc, CallPath, 0))
    /\ client' = client
    /\ Raised

(***************************************************************************)
(* The editor handlers: completions, diagnostics, hover.  The server        *)
(* handles one request at a time, so they run when the initialize handler   *)
(* has returned or raised.                                                  *)
(***************************************************************************)
HandlersRun == pc \in {"done", "failed"}

Triggers == {<<"!">>, <<"#">>}
HoverWords == {Url(PathA, "issues", 7), Url(PathB, "merge_requests", 7)}
Documents ==
    {<< <<"s", "e", "e", " ">> \o Url(PathA, "issues", 10) \o <<" ", "x", "\n">>,
        Url(PathA, "merge_requests", 7) \o <<"\n">> >>}

\* GitlabObject.to_completion_item, with the label_details the handler adds
to_completion_item(o, is_issue, path) ==
    [label |-> <<IF is_issue THEN "#" ELSE "!", o.id, o.title>>,
     kind |-> IF o.state = "opened" THEN "Method" ELSE "Text",
     detail |-> path]

CompletionItems(ps, trigger) ==
    IF trigger = <<"!">>
    THEN {to_completion_item(ps[i][2].merge_requests[k], FALSE, ps[i][2].path) :
             <<i, k>> \in {<<j, l>> \in (1..Len(ps)) \X Iids :
                              l \in DOMAIN ps[j][2].merge_requests}}
    ELSE IF trigger = <<"#">>
    THEN {to_completion_item(ps[i][2].issues[k], TRUE, ps[i][2].path) :
             <<i, k>> \in {<<j, l>> \in (1..Len(ps)) \X Iids :
                              l \in DOMAIN ps[j][2].issues}}
    ELSE {}

Severity(state) ==
    IF state = "opened" THEN "Hint"
    ELSE IF state = "merged" THEN "Information"
    ELSE "Error"

RECURSIVE LineDiagnostics(_, _)
LineDiagnostics(found, line_nr) ==
    IF found = <<>> THEN <<>>
    ELSE <<[start |-> <<line_nr, Head(found)[2]>>, end |-> <<line_nr, Head(found)[3]>>,
            message |-> Head(found)[1].state,
            severity |-> Severity(Head(found)[1].state)]>>
         \o LineDiagnostics(Tail(found), line_nr)

RECURSIVE DocumentDiagnostics(_, _, _)
DocumentDiagnostics(ps, lines, line_nr) ==
    IF line_nr >= Len(lines) THEN <<>>
    ELSE LineDiagnostics(get_gitlab_objects_from_line(ps, lines[line_nr + 1]), line_nr)
         \o DocumentDiagnostics(ps, lines, line_nr + 1)

HoverResult(ps, url) ==
    LET gitlab_object == get_gitlab_object_from_url(ps, url)
    IN  IF gitlab_object = <<>> THEN <<>>
        ELSE <<[value |-> <<gitlab_object[1].title, gitlab_object[1].description>>]>>

\* a handler that asks the remote before it answers
AnsweredAfterCall(handler, input, result) ==
    /\ HandlersRun
    /\ reply = <<>>
    /\ reply' = [handler |-> handler, input |-> input, result |-> result]
    /\ log' = Called(log, "projects.list", <<>>)
    /\ UNCHANGED <<clock, remote, changes, store, client, projects, requested, pc,
                   cache, ci, catalog, fi, issue_dict, merge_request_dict, progress,
                   given, quiet, prev>>

\* The handlers only read self.projects, so a request answered after another
\* one reaches no state that answering it first does not reach: the model
\* keeps the answer to one request per session.
Answered(handler, input, result) ==
    /\ HandlersRun
    /\ reply = <<>>
    /\ reply' = [handler |-> handler, input |-> input, result |-> result]
    /\ UNCHANGED <<clock, remote, changes, store, client, projects, requested, pc,
                   cache, ci, catalog, fi, issue_dict, merge_request_dict, progress,
                   log, given, quiet, prev>>

completions(trigger) ==
    Answered("completions", trigger, CompletionItems(projects, trigger))

diagnostics(lines) ==
    Answered("diagnostics", lines, DocumentDiagnostics(projects, lines, 0))

hover(url) == Answered("hover", url, HoverResult(projects, url))

(***************************************************************************)
(* The world outside the handler.                                          *)
(***************************************************************************)
\* The handler observes the outside world only when it lists objects and when
\* it reads the clock; between sessions nothing observes it before the next
\* session starts.  The outside world moves at those points.
Observing ==
    pc \in {"idle", "update_issues", "update_merge_requests", "update_timestamp",
            "fetch_issues", "fetch_merge_requests", "fetch_timestamp"}

\* somebody creates an object, or changes the state of one; never deletes one
RemoteChange(p, kind, iid, state, now) ==
    /\ Observing
    /\ changes < MaxChanges
    /\ p \in DOMAIN remote
    /\ IF iid \in DOMAIN remote[p][kind]
       THEN state # remote[p][kind][iid].state
       ELSE state = "opened"
    /\ remote' = [remote EXCEPT
                     ![p][kind] = (iid :> RemoteObject(iid, state, now)) @@ @]
    /\ changes' = changes + 1
    /\ clock' = now
    /\ UNCHANGED <<store, client, projects, requested, pc, cache, ci,
                   catalog, fi, issue_dict, merge_request_dict, progress, log, reply, given>>
    /\ quiet' = FALSE
    /\ prev' = <<>>

\* the editor starts the server again: a new process, the file is what remains
NewSession ==
    /\ pc \in {"done", "failed"}
    /\ client' = "None"
    /\ projects' = <<>>
    /\ requested' = <<>>
    /\ pc' = "idle"
    /\ progress' = [increment |-> 0, progress |-> 0]
    /\ log' = <<>>
    /\ reply' = <<>>
    /\ given' = <<>>
    /\ quiet' = TRUE
    /\ prev' = IF pc = "done" /\ quiet
               THEN <<[given |-> given, projects |-> projects]>>
               ELSE <<>>
    /\ UNCHANGED <<clock, remote, changes, store, cache, ci, catalog, fi, issue_dict,
                   merge_request_dict>>

Next ==
    \/ \E list \in RequestLists : Initialize(list)
    \/ CacheLoop
    \/ UpdateGet1
    \/ UpdateIssues
    \/ UpdateGet2
    \/ UpdateMergeRequests
    \/ \E now \in Times : UpdateTimestamp(now)
    \/ ProjectsListCall
    \/ FetchLoop
    \/ FetchIssues
    \/ FetchMergeRequests
    \/ \E now \in Times : FetchTimestamp(now)
    \/ RemoteFailure
    \/ \E trigger \in Triggers : completions(trigger)
    \/ \E lines \in Documents : diagnostics(lines)
    \/ \E url \in HoverWords : hover(url)
    \/ \E p \in Paths, kind \in Kinds, iid \in Iids :
          \E state \in States(kind), now \in Times :
              RemoteChange(p, kind, iid, state, now)
    \/ NewSession

Spec == Init /\ [][Next]_vars

(***************************************************************************)
(* Reference lookup on its own: get_gitlab_objects_from_line and           *)
(* get_gitlab_object_from_url applied to lines and URLs against an index   *)
(* a synchronization can have left in self.projects.                       *)
(***************************************************************************)
\* a record of the index; the title tells an issue from a merge request
IndexObject(kind, iid) ==
    GitlabObject(iid, IF kind = "issues" THEN "an issue" ELSE "a merge request", "n",
                 IF iid = 10 THEN "opened"
                 ELSE IF kind = "issues" THEN "closed" ELSE "merged",
                 "d")

IssueSets == {{}, {7}, {7, 10}}
MergeRequestSets == {{}, {7}, {10}}

IndexProject(path, iids, mr_iids) ==
    GitlabProject(ProjectId(path), path, 0,
                  [k \in iids |-> IndexObject("issues", k)],
                  [k \in mr_iids |-> IndexObject("merge_requests", k)])

IndexProjects(path) ==
    {IndexProject(path, iids, mr_iids) : iids \in IssueSets, mr_iids \in MergeRequestSets}

\* self.projects after a pass over [], ["a"] or ["a", "g/b"]
Indexes ==
    {<<>>}
        \cup {<< <<PathA, a>> >> : a \in IndexProjects(PathA)}
        \cup {<< <<PathA, a>>, <<PathB, b>> >> :
                 a \in IndexProjects(PathA), b \in IndexProjects(PathB)}

\* a project path no index holds
PathZ == <<"z">>
LookupPaths == Paths \cup {PathZ}
LookupIids == {7, 10, 42}

Texts == {<<"s", "e", "e">>, <<"(", "x", ")">>}

\* <text> <url> <text>
SpacedLine(before, url, after) == before \o <<" ">> \o url \o <<" ">> \o after

SpacedLines ==
    {SpacedLine(before, Url(path, kind, iid), after) :
        before \in Texts, after \in Texts, path \in LookupPaths, kind \in Kinds,
        iid \in LookupIids}

\* what stands between two references on a line
Separators == {<<" ">>, <<",">>, <<" ", "&", " ">>, <<")", ",", "(">>}

References ==
    {Url(PathA, "issues", 7), Url(PathA, "merge_requests", 7), Url(PathB, "issues", 10)}

TwoReferenceLines ==
    {first \o separator \o second :
        first \in References, second \in References, separator \in Separators}

Lines == SpacedLines \cup TwoReferenceLines

Urls == {Url(path, kind, iid) : path \in LookupPaths, kind \in Kinds, iid \in LookupIids}

LookupInit ==
    /\ clock = 0
    /\ remote = RemoteInit(Paths)
    /\ changes = 0
    /\ projects \in Indexes
    /\ store = SavedDocument(projects)
    /\ client = "Gitlab"
    /\ requested = <<>>
    /\ pc = "done"
    /\ cache = <<>>
    /\ ci = 0
    /\ catalog = <<>>
    /\ fi = 0
    /\ issue_dict = EmptyDict
    /\ merge_request_dict = EmptyDict
    /\ progress = [increment |-> 0, progress |-> 0]
    /\ log = <<>>
    /\ reply = <<>>
    /\ given = <<>>
    /\ quiet = TRUE
    /\ prev = <<>>

\* ls.get_gitlab_objects_from_line(line), as diagnostics calls it
find_references(line) ==
    Answered("find_references", line, get_gitlab_objects_from_line(projects, line))

\* ls.get_gitlab_object_from_url(url), as hover calls it
resolve_url(url) ==
    Answered("resolve_url", url, get_gitlab_object_from_url(projects, url))

LookupNext ==
    \/ \E line \in Lines : find_references(line)
    \/ \E url \in Urls : resolve_url(url)
    \/ \E trigger \in Triggers : completions(trigger)
    \/ \E line \in Lines : diagnostics(<<line>>)
    \/ \E url \in Urls : hover(url)

LookupSpec == LookupInit /\ [][LookupNext]_vars

(***************************************************************************)
(* The synchronization pass on its own, over longer requested lists: the   *)
(* remote does not change and the clock stands still, which the progress   *)
(* accounting and the order of the pass's calls do not depend on.          *)
(***************************************************************************)
PassRequestLists == SeqsUpTo(Paths, MaxPaths)

PassNext ==
    \/ \E list \in PassRequestLists : Initialize(list)
    \/ CacheLoop
    \/ UpdateGet1
    \/ UpdateIssues
    \/ UpdateGet2
    \/ UpdateMergeRequests
    \/ UpdateTimestamp(clock)
    \/ ProjectsListCall
    \/ FetchLoop
    \/ FetchIssues
    \/ FetchMergeRequests
    \/ FetchTimestamp(clock)
    \/ RemoteFailure
    \/ NewSession

PassSpec == Init /\ [][PassNext]_vars

(***************************************************************************)
(* Properties.                                                             *)
(***************************************************************************)
Range(list) == {list[i] : i \in 1..Len(list)}

Last(l) == l[Len(l)]

HasEvent(l, ev) == \E i \in 1..Len(l) : l[i].ev = ev

Reported(l, what, path) ==
    \E i \in 1..Len(l) : l[i].ev = "report" /\ l[i].what = what /\ l[i].arg = path

Refreshing ==
    pc \in {"update_get_1", "update_issues", "update_get_2", "update_merge_requests",
            "update_timestamp"}

\* new is old with the records of returned laid over it, key by key
Overlaid(old, returned, new) ==
    /\ DOMAIN new = DOMAIN old \cup DOMAIN returned
    /\ \A k \in DOMAIN returned : new[k] = returned[k]
    /\ \A k \in DOMAIN old \ DOMAIN returned : new[k] = old[k]

\* C1: a refresh of a cached project merges by IID with overwrite on conflict:
\* when update_project has merged the issues (the merge requests) the remote
\* returned, the project's mapping has the keys of the old mapping and of the
\* returned records, every returned IID maps to the returned record and every
\* other IID to its old record; no step of a refresh removes a record.
RefreshMergesByIid ==
    [][/\ (pc = "update_issues" /\ pc' = "update_get_2") =>
              Overlaid(Get(projects, CurrentPath).issues, issue_dict',
                       Get(projects', CurrentPath).issues)
       /\ (pc = "update_merge_requests" /\ pc' = "update_timestamp") =>
              Overlaid(Get(projects, CurrentPath).merge_requests, merge_request_dict',
                       Get(projects', CurrentPath).merge_requests)
       /\ (Refreshing /\ pc' # "failed") =>
              \A p \in Keys(projects) :
                  /\ Has(projects', p)
                  /\ DOMAIN Get(projects, p).issues \subseteq DOMAIN Get(projects', p).issues
                  /\ DOMAIN Get(projects, p).merge_requests
                         \subseteq DOMAIN Get(projects', p).merge_requests]_vars

\* C1 happens: the remote returned an issue the cache held with another state,
\* and the project now holds the returned record.
RefreshOverwroteRecord ==
    /\ pc = "update_get_2"
    /\ \E k \in DOMAIN issue_dict :
          /\ k \in DOMAIN from_dict(cache[ci][2]).issues
          /\ from_dict(cache[ci][2]).issues[k] # issue_dict[k]
          /\ Get(projects, CurrentPath).issues[k] = issue_dict[k]

CachedNeverFetchedInFull ==
    pc \in {"fetch_issues", "fetch_merge_requests", "fetch_timestamp"} =>
        ~Has(cache, catalog[fi].path_with_namespace)

\* C4: at the end of a successful pass the persisted store is the serialization
\* of the in-memory project set: the same paths in the same order, and for each
\* the same id, path, last_update, issues and merge_requests.
StoreIsMemoryWhenDone ==
    pc = "done" =>
        /\ Len(store) = Len(projects)
        /\ \A i \in 1..Len(projects) :
              LET saved == store[i][2]
                  project == projects[i][2]
              IN  /\ store[i][1] = projects[i][1]
                  /\ saved.id = project.id
                  /\ saved.path = project.path
                  /\ saved.last_update = project.last_update
                  /\ DOMAIN saved.issues = {StrOfInt(k) : k \in DOMAIN project.issues}
                  /\ \A k \in DOMAIN project.issues :
                        saved.issues[StrOfInt(k)] = project.issues[k]
                  /\ DOMAIN saved.merge_requests =
                         {StrOfInt(k) : k \in DOMAIN project.merge_requests}
                  /\ \A k \in DOMAIN project.merge_requests :
                        saved.merge_requests[StrOfInt(k)] = project.merge_requests[k]
                  /\ from_dict(saved) = project

\* C4 happens: a pass over two projects, one with an issue 10, has saved.
TwoProjectsSaved ==
    /\ pc = "done"
    /\ Len(projects) = 2
    /\ \E i \in 1..2 : 10 \in DOMAIN projects[i][2].issues

\* C5: a successful pass ends with exactly the requested paths that were keys of
\* the store at its start or are paths of the remote catalog in memory; the
\* other requested paths are dropped and the pass still saves and sends "end",
\* with no error.
MemoryIsRequestedAndKnown ==
    [][(pc # "done" /\ pc' = "done") =>
          /\ Keys(projects') = {p \in Range(given) : Has(store, p) \/ p \in DOMAIN remote}
          /\ Len(log') >= 2
          /\ log'[Len(log')].ev = "end"
          /\ log'[Len(log') - 1].ev = "save"
          /\ ~HasEvent(log', "error")
          /\ store' = SavedDocument(projects')]_vars

\* C5 happens: a pass has ended with a requested path dropped and another loaded.
RequestedPathDropped ==
    /\ pc = "done"
    /\ Len(projects) >= 1
    /\ \E p \in Range(given) : ~Has(projects, p)

\* every last_update held in memory or in the store
Stamps ==
    {projects[i][2].last_update : i \in 1..Len(projects)}
        \cup {store[i][2].last_update : i \in 1..Len(store)}

\* the issue fetch and the merge-request fetch for p are the last remote calls
\* of the session, both returned, and what they returned is in the project
BothFetchedAndMerged(p, project) ==
    /\ Len(log) >= 3
    /\ Last(log) = Event("call", "mergerequests.list", p, 0)
    /\ \/ log[Len(log) - 1] = Event("call", "issues.list", p, 0)
       \/ /\ log[Len(log) - 1] = Event("call", "projects.get", p, 0)
          /\ log[Len(log) - 2] = Event("call", "issues.list", p, 0)
    /\ \A k \in DOMAIN issue_dict : k \in DOMAIN project.issues
                                      /\ project.issues[k] = issue_dict[k]
    /\ \A k \in DOMAIN merge_request_dict :
          k \in DOMAIN project.merge_requests
              /\ project.merge_requests[k] = merge_request_dict[k]

\* C6: a project's last_update never decreases, in memory or in the store, and
\* it takes a new value only when the issue fetch and the merge-request fetch
\* for that project have both returned and been merged in the current pass; a
\* pass that fails leaves every last_update as it was.  No stamp is ahead of
\* the clock and every new stamp is the clock's reading, so a new stamp is at
\* least every stamp ever written.
LastUpdateOnlyAdvancesAfterBothFetches ==
    [][/\ \A t \in Stamps : t <= clock
       /\ \A p \in Keys(projects') :
             LET new == Get(projects', p)
             IN  \/ Has(projects, p) /\ new.last_update = Get(projects, p).last_update
                 \/ /\ ~Has(projects, p)
                    /\ pc = "cache_loop"
                    /\ Has(store, p)
                    /\ new.last_update = Get(store, p).last_update
                 \/ /\ pc \in {"update_timestamp", "fetch_timestamp"}
                    /\ BothFetchedAndMerged(p, new)
                    /\ new.last_update >= clock
                    /\ new.last_update = clock'
       /\ \A p \in Keys(store') :
             \/ Has(store, p) /\ Get(store', p).last_update = Get(store, p).last_update
             \/ /\ pc' = "done"
                /\ Has(projects, p)
                /\ Get(store', p).last_update = Get(projects, p).last_update
       /\ pc' = "failed" => (projects' = projects /\ store' = store)]_vars

\* C6 happens: a refresh has moved a cached project's last_update forward.
RefreshAdvancedLastUpdate ==
    /\ pc = "cache_loop"
    /\ \E i \in 1..Len(cache) :
          /\ Reported(log, "Updated", cache[i][1])
          /\ Has(projects, cache[i][1])
          /\ Get(projects, cache[i][1]).last_update > cache[i][2].last_update

\* C7: a successful pass that follows a successful pass with the same requested
\* list, the remote unchanged since the first began, ends with the same
\* projects, each with the same issues and merge_requests, record by record.
SecondPassChangesNoRecord ==
    (pc = "done" /\ quiet /\ prev # <<>> /\ prev[1].given = given) =>
        /\ Keys(projects) = Keys(prev[1].projects)
        /\ \A p \in Keys(projects) :
              /\ Get(projects, p).issues = Get(prev[1].projects, p).issues
              /\ Get(projects, p).merge_requests
                     = Get(prev[1].projects, p).merge_requests
              /\ Get(projects, p).id = Get(prev[1].projects, p).id

\* C7 happens: the second of two such passes has refreshed a project a whole
\* second after the first stamped it.
SecondPassRefreshed ==
    /\ pc = "done"
    /\ quiet
    /\ prev # <<>>
    /\ prev[1].given = given
    /\ \E p \in Keys(projects) :
          /\ Reported(log, "Updated", p)
          /\ Get(projects, p).last_update > 0

RemoteCallPositions ==
    {"update_get_1", "update_issues", "update_get_2", "update_merge_requests",
     "projects_list", "fetch_issues", "fetch_merge_requests"}

\* C8: a remote call that fails is fatal to the pass: the step that raises
\* only records the error, the session issues no remote call and sends no
\* notification afterwards, it never saves, and the store, which only the
\* save of a successful pass writes, is the snapshot from before the pass.
RemoteFailureIsFatal ==
    [][/\ (pc' = "failed" /\ pc \in RemoteCallPositions) =>
              /\ Len(log') = Len(log) + 1
              /\ Last(log').ev = "error"
              /\ SubSeq(log', 1, Len(log)) = log
              /\ store' = store
       /\ pc = "failed" =>
              /\ pc' \in {"failed", "idle"}
              /\ store' = store
              /\ pc' = "failed" => log' = log
              /\ ~HasEvent(log, "save")
              /\ ~HasEvent(log, "end")
       /\ (Running /\ pc' # "done") => store' = store
       /\ Running => store = cache]_vars

\* C8 happens: a pass failed at a remote call after loading a project from a
\* store that held one.
PassFailedAtRemoteCall ==
    /\ pc = "failed"
    /\ HasEvent(log, "error")
    /\ Len(store) > 0
    /\ Len(projects) > 0

\* the project the failed remote call of this session was about
AffectedPaths ==
    {log[i].arg : i \in {j \in 1..Len(log) : log[j].ev = "error" /\ log[j].arg # <<>>}}

\* C9: after a sync that failed while a project was being refreshed or fetched,
\* that project is absent from memory and no handler returns a result for it.
AffectedProjectAbsent ==
    pc = "failed" =>
        \A p \in AffectedPaths :
            /\ ~Has(projects, p)
            /\ \A kind \in Kinds, iid \in Iids :
                  HoverResult(projects, Url(p, kind, iid)) = <<>>
            /\ \A trigger \in Triggers :
                  \A item \in CompletionItems(projects, trigger) : item.detail # p

\* the project is in memory with issues that differ from the stored ones while
\* its last_update is the stored one
HalfUpdated(p) ==
    /\ Has(store, p)
    /\ Has(projects, p)
    /\ Get(projects, p).issues # from_dict(Get(store, p)).issues
    /\ Get(projects, p).merge_requests = from_dict(Get(store, p)).merge_requests
    /\ Get(projects, p).last_update = Get(store, p).last_update

\* C10: no handler answers from a project whose issues are those of the current
\* refresh while its merge_requests and last_update are those from before it.
NoHandlerSeesHalfUpdate ==
    (HandlersRun /\ reply # <<>>) => \A p \in Keys(projects) : ~HalfUpdated(p)


(***************************************************************************)
(* Properties of reference lookup (LookupSpec).                            *)
(***************************************************************************)
\* the mapping of a project a pattern match's kind names
MappingOf(project, m) ==
    IF m.group2 = IssuesWord THEN project.issues ELSE project.merge_requests

\* the pattern match names a project of the index and an IID of its mapping
Resolves(m) ==
    \E i \in 1..Len(projects) :
        /\ projects[i][1] = m.group1
        /\ IntOfStr(m.group3) \in DOMAIN MappingOf(projects[i][2], m)

EntryOf(m) ==
    LET i == CHOOSE j \in 1..Len(projects) : projects[j][1] = m.group1
    IN  MappingOf(projects[i][2], m)[IntOfStr(m.group3)]

\* the j-th smallest element of a set of numbers
NthOf(S, j) == CHOOSE x \in S : Cardinality({y \in S : y < x}) = j - 1

\* C11: a pattern match resolves if and only if its project path is a key of
\* the in-memory project set and its IID a key of that project's mapping for
\* its kind, and then to that mapping's entry, so an issues reference never
\* yields a merge request nor the reverse; get_gitlab_objects_from_line returns
\* exactly the resolving matches, in order, each with its start and end.
ResolutionIsExactLookup ==
    /\ (reply # <<>> /\ reply.handler = "resolve_url") =>
          LET ms == RegexMatch(reply.input)
          IN  /\ (reply.result # <<>>) <=> (ms # <<>> /\ Resolves(ms[1]))
              /\ reply.result # <<>> =>
                    /\ reply.result = <<EntryOf(ms[1])>>
                    /\ (reply.result[1].title = "an issue") <=> (ms[1].group2 = IssuesWord)
    /\ (reply # <<>> /\ reply.handler = "find_references") =>
          LET ms == FindIter(reply.input)
              resolving == {i \in 1..Len(ms) : Resolves(ms[i])}
          IN  /\ Len(reply.result) = Cardinality(resolving)
              /\ \A j \in 1..Len(reply.result) :
                    LET m == ms[NthOf(resolving, j)]
                    IN  /\ reply.result[j] = <<EntryOf(m), m.start, m.end>>
                        /\ (reply.result[j][1].title = "an issue")
                               <=> (m.group2 = IssuesWord)

\* C11 happens: a merge-request URL was resolved against a project that holds
\* an issue and a merge request with the same IID, and the merge request came back.
MergeRequestResolvedBesideIssue ==
    /\ reply # <<>>
    /\ reply.handler = "resolve_url"
    /\ reply.input = Url(PathA, "merge_requests", 7)
    /\ Has(projects, PathA)
    /\ 7 \in DOMAIN Get(projects, PathA).issues
    /\ reply.result = <<IndexObject("merge_requests", 7)>>

\* C12: on a line "<text> B/<project-path>/-/issues/<iid> <text>" the pattern
\* matches exactly once, from the first to the last character of the URL, and
\* get_gitlab_objects_from_line returns that one match with issue <iid> of
\* project <project-path> when the index holds both, and nothing otherwise.
SpacedIssueReferenceIsFound ==
    (reply # <<>> /\ reply.handler = "find_references") =>
        \A before \in Texts, after \in Texts, path \in LookupPaths, iid \in LookupIids :
            LET url == Url(path, "issues", iid)
                first == Len(before) + 1
            IN  reply.input = SpacedLine(before, url, after) =>
                    /\ Len(FindIter(reply.input)) = 1
                    /\ FindIter(reply.input)[1].start = first
                    /\ FindIter(reply.input)[1].end = first + Len(url)
                    /\ SubSeq(reply.input, first + 1, first + Len(url)) = url
                    /\ IF Has(projects, path) /\ iid \in DOMAIN Get(projects, path).issues
                       THEN reply.result =
                                << <<Get(projects, path).issues[iid], first,
                                     first + Len(url)>> >>
                       ELSE reply.result = <<>>

\* C12 happens: the reference to issue 10 of g/b on such a line was found.
SpacedIssueReferenceResolved ==
    /\ reply # <<>>
    /\ reply.handler = "find_references"
    /\ reply.input = SpacedLine(<<"s", "e", "e">>, Url(PathB, "issues", 10), <<"s", "e", "e">>)
    /\ Len(reply.result) = 1
    /\ reply.result[1][1] = IndexObject("issues", 10)

\* the record a reference of References names, when the index holds it
Referenced(url) == get_gitlab_object_from_url(projects, url)

\* C13: for a line made of two distinct references that each resolve, whatever
\* stands between them, get_gitlab_objects_from_line returns two matches, left
\* to right, the first ending no later than the second starts, each with its
\* own record.
TwoReferencesTwoMatches ==
    (reply # <<>> /\ reply.handler = "find_references") =>
        \A first \in References, second \in References, separator \in Separators :
            (/\ reply.input = first \o separator \o second
             /\ first # second
             /\ Referenced(first) # <<>>
             /\ Referenced(second) # <<>>) =>
                /\ Len(reply.result) = 2
                /\ reply.result[1] = <<Referenced(first)[1], 0, Len(first)>>
                /\ reply.result[2] = <<Referenced(second)[1], Len(first) + Len(separator),
                                       Len(reply.input)>>
                /\ reply.result[1][3] <= reply.result[2][2]


\* C15: a lookup or an editor handler that answers leaves the in-memory project
\* set, the persisted store and the requested list as they were and issues no
\* remote call, whatever the line or URL it is given.
LookupOnlyReads ==
    [][reply' # reply =>
          /\ reply'.handler \in {"find_references", "resolve_url", "completions",
                                 "diagnostics", "hover"}
          /\ projects' = projects
          /\ store' = store
          /\ requested' = requested
          /\ log' = log
          /\ remote' = remote
          /\ client' = client]_vars

\* C15 happens: the diagnostics handler has answered with a diagnostic for a
\* line that holds a reference.
DiagnosticsAnswered ==
    /\ reply # <<>>
    /\ reply.handler = "diagnostics"
    /\ reply.result # <<>>
    /\ Len(projects) = 2

(***************************************************************************)
(* Properties of the pass (PassSpec).                                      *)
(***************************************************************************)
\* positions in the log of the reports that follow a completed project step
StepReports(l) ==
    {i \in 1..Len(l) : l[i].ev = "report" /\ l[i].what \in {"Updated", "Fetched project"}}

ReportPositions(l) == {i \in 1..Len(l) : l[i].ev = "report"}

\* the percentage of the last report sent
LastReported(l) == l[CHOOSE i \in ReportPositions(l) : \A j \in ReportPositions(l) : j <= i].pct

\* C14 as stated: a successful pass over N requested projects ends with
\* floor(100/N) * N as its last reported percentage.
LastReportIsEveryShare ==
    (pc = "done" /\ ReportPositions(log) # {}) =>
        LastReported(log) = (100 \div Len(given)) * Len(given)

\* C14 as amended: every report carries floor(100/N) times the number of project
\* steps completed so far, so the report after the k-th completed step carries
\* floor(100/N) * k; a pass completes at most N steps, and its last report
\* carries floor(100/N) * N only if it completes N of them.
ReportsCarryCompletedShares ==
    /\ \A i \in ReportPositions(log) :
          log[i].pct = (100 \div Len(given)) * Cardinality({j \in StepReports(log) : j <= i})
    /\ Cardinality(StepReports(log)) <= Len(given)
    /\ (pc = "done" /\ ReportPositions(log) # {}) =>
          LastReported(log) = (100 \div Len(given)) * Cardinality(StepReports(log))

\* C14 happens: a pass over three requested entries has completed three steps
\* and ended at 99 percent.
ThreeStepsReach99 ==
    /\ pc = "done"
    /\ Len(given) = 3
    /\ Cardinality(StepReports(log)) = 3
    /\ LastReported(log) = 99

\* C16: a pass started with an empty requested list fails at once: it sends no
\* progress notification, loads no cache, issues no remote call, writes no
\* store, and leaves the in-memory project set and the store as they were; the
\* session does nothing more afterwards.
EmptyListFailsBeforeAnything ==
    [][/\ (pc = "idle" /\ pc' # "idle" /\ requested' = <<>>) =>
              /\ pc' = "failed"
              /\ log = <<>>
              /\ log' = <<>>
              /\ cache' = cache
              /\ store' = store
              /\ projects' = projects
              /\ progress' = progress
              /\ remote' = remote
       /\ (pc = "failed" /\ given = <<>>) =>
              /\ log = <<>>
              /\ projects = <<>>
              /\ pc' \in {"failed", "idle"}
              /\ store' = store]_vars

\* C16 happens: a session given an empty list has failed, over a store that
\* an earlier session wrote.
EmptyListFailed ==
    /\ pc = "failed"
    /\ given = <<>>
    /\ client = "Gitlab"
    /\ Len(store) > 0


\* positions in the log of the calls that list the remote catalog
ListCalls(l) == {i \in 1..Len(l) : l[i].ev = "call" /\ l[i].what = "projects.list"}

\* positions in the log of what the cache pass does for a cached project
RefreshEvents(l) ==
    {i \in 1..Len(l) :
        \/ l[i].ev = "call" /\ l[i].what = "projects.get"
        \/ l[i].ev = "report" /\ l[i].what \in {"Updating", "Updated"}}

\* positions in the log of the issue and merge-request fetches without a
\* filter: those of fetch_projects, which no projects.get precedes
UnfilteredCalls(l) ==
    {i \in 1..Len(l) :
        /\ l[i].ev = "call"
        /\ l[i].what \in {"issues.list", "mergerequests.list"}
        /\ ~(i > 1 /\ l[i - 1].ev = "call" /\ l[i - 1].what = "projects.get")}

\* C18: a pass lists the remote catalog at most once, after everything the
\* cache pass does, and only if the requested list is not empty when the cache
\* pass ends; when it is empty the pass ends without listing the catalog and
\* without any unfiltered issue or merge-request fetch, which only follow the
\* listing.
CatalogListedOnceAfterCachePass ==
    [][/\ Cardinality(ListCalls(log)) <= 1
       /\ \A i \in ListCalls(log) : \A j \in RefreshEvents(log) : j < i
       /\ \A j \in UnfilteredCalls(log) : \E i \in ListCalls(log) : i < j
       /\ (pc # "projects_list" /\ pc' = "projects_list") =>
              /\ pc = "cache_loop"
              /\ ci > Len(cache)
              /\ Len(requested) > 0
       /\ (pc = "cache_loop" /\ ci > Len(cache) /\ requested = <<>>) =>
              /\ pc' = "done"
              /\ ListCalls(log') = {}
              /\ UnfilteredCalls(log') = {}]_vars

\* C18 happens: a pass over two cached projects has ended without listing the
\* catalog.
CachePassConsumedTheList ==
    /\ pc = "done"
    /\ Len(given) = 2
    /\ Cardinality({i \in 1..Len(log) :
                       log[i].ev = "report" /\ log[i].what = "Updated"}) = 2
    /\ ListCalls(log) = {}

EventPositions(l, ev) == {i \in 1..Len(l) : l[i].ev = ev}

\* positions in the log of the remote calls of update_project: each
\* projects.get and the list call that follows it
RefreshCalls(l) ==
    {i \in 1..Len(l) :
        /\ l[i].ev = "call"
        /\ \/ l[i].what = "projects.get"
           \/ i > 1 /\ l[i - 1].ev = "call" /\ l[i - 1].what = "projects.get"}

\* the notifications and calls of the session so far are in protocol order
ProtocolOrdered ==
    /\ Cardinality(EventPositions(log, "begin")) = 1
    /\ \A b \in EventPositions(log, "begin") : \A r \in ReportPositions(log) : b < r
    /\ Cardinality(EventPositions(log, "end")) <= 1
    /\ (EventPositions(log, "end") # {}) <=> (pc = "done")
    /\ \A e \in EventPositions(log, "end") :
          /\ e = Len(log)
          /\ log[e - 1].ev = "save"
          /\ \A r \in ReportPositions(log) : r < e - 1
    /\ \A c \in RefreshCalls(log) :
          \E u \in 1..(c - 1) :
              /\ log[u] = Event("report", "Updating", log[c].arg, log[u].pct)
              /\ \A k \in (u + 1)..(c - 1) : k \in RefreshCalls(log)
    /\ \A d \in 1..Len(log) :
          (log[d].ev = "report" /\ log[d].what = "Updated") =>
              /\ d > 5
              /\ log[d - 5].ev = "report"
              /\ log[d - 5].what = "Updating"
              /\ log[d - 5].arg = log[d].arg
              /\ \A k \in (d - 4)..(d - 1) : k \in RefreshCalls(log) /\ log[k].arg = log[d].arg

\* C19 as stated: in every pass exactly one "begin" is sent, before every
\* "report"; "end" is sent at most once, only by a pass that succeeds, after
\* the last "report" and after the save; for each cached project "Updating"
\* precedes its refresh calls and "Updated" follows them.
EveryPassFollowsProtocol == pc # "idle" => ProtocolOrdered

\* C19 as amended: that holds of every pass over a requested list that is not
\* empty; a pass over an empty list sends nothing at all, no "begin" either.
StartedPassFollowsProtocol ==
    /\ (pc # "idle" /\ given # <<>>) => ProtocolOrdered
    /\ (pc # "idle" /\ given = <<>>) => (log = <<>> /\ pc = "failed")

\* C19 happens: a pass that refreshed a cached project and fetched another has
\* saved and sent "end".
RefreshedFetchedAndEnded ==
    /\ pc = "done"
    /\ \E d \in ReportPositions(log) : log[d].what = "Updated"
    /\ \E d \in ReportPositions(log) : log[d].what = "Fetched project"
    /\ Last(log).ev = "end"

\* C20: in every state of a pass over N >= 1 requested paths, repeated or not,
\* the completed steps are at most N, WorkProgress.progress is floor(100/N)
\* times their number and so within 0..floor(100/N)*N, and the reported
\* percentages never decrease and never exceed 100.
PercentStaysWithinShares ==
    (pc # "idle" /\ given # <<>>) =>
        /\ Cardinality(StepReports(log)) <= Len(given)
        /\ progress.increment = 100 \div Len(given)
        /\ progress.progress = progress.increment * Cardinality(StepReports(log))
        /\ progress.progress \in 0..(progress.increment * Len(given))
        /\ progress.progress <= 100
        /\ \A i \in ReportPositions(log) :
              /\ log[i].pct <= 100
              /\ log[i].pct <= progress.progress
              /\ \A j \in ReportPositions(log) : i < j => log[i].pct <= log[j].pct

\* C20 happens: a pass over a list that repeats a cached path has refreshed it
\* once and fetched it once more, two steps of three.
RepeatedPathSteppedTwice ==
    /\ pc = "done"
    /\ given = <<PathA, PathA, PathA>>
    /\ Cardinality(StepReports(log)) = 2
    /\ progress.progress = 66

(***************************************************************************)
(* Convergence of the incremental cache (Spec).                            *)
(***************************************************************************)
\* C17: after a successful pass during which the remote did not change, every
\* project in memory holds the remote's current issues and merge requests,
\* whatever was created or modified on the remote before that pass, also while
\* an earlier pass ran.
QuietPassConverges ==
    (pc = "done" /\ quiet) =>
        \A p \in Keys(projects) :
            /\ Get(projects, p).issues = get_issue_dict(remote[p], NoTime)
            /\ Get(projects, p).merge_requests = get_merge_request_dict(remote[p], NoTime)

=============================================================================
